---- MODULE Spec2Model ----
(***************************************************************************)
(* Client of the multiplayer snake game: the useWebSocket hook (socket     *)
(* session, held snapshot, local id), the Home page (phase -> showGame,    *)
(* death-revert timer, active effect, throttled keyboard input), the       *)
(* EffectIndicator it renders (countdown interval), the GameCanvas it      *)
(* renders (draw operations on the 2d context) and the socket.io client    *)
(* the hook configures.                                                    *)
(*                                                                         *)
(* React state is modelled as React keeps it: a useState variable holds    *)
(* the value of its latest queued update; a render commits those values,   *)
(* and the effects and callbacks created by a render close over the values *)
(* of that render (the record "rendered").  Updates queued from socket     *)
(* listeners and timers are rendered in a later task (the action Render),  *)
(* so several events may be handled between two renders.  The update       *)
(* queued by a keydown handler has discrete priority and is rendered       *)
(* before the next event, so it is part of the KeyDown action.             *)
(***************************************************************************)
EXTENDS Integers, Sequences, FiniteSets, TLC

VARIABLES
    now,           \* Date.now(), in ms
    mounted,       \* the Home component (and with it the hook) is mounted
    sockState,     \* socket.io client: "opening", "open", "backoff", "failed", "closed"
    sockId,        \* socket.id of the current session, NoId when not open
    attempts,      \* reconnection attempts made since the last successful connect
    sendBuffer,    \* packets socket.io buffered by emit() while not connected
    gameState,     \* useWebSocket: useState<GameState | null>
    lobbyStatus,   \* useWebSocket: useState<LobbyStatus | null>
    isConnected,   \* useWebSocket: useState(false)
    playerId,      \* useWebSocket: useState<string | null>
    unprocessed,   \* setGameState updates queued since the last render
    showGame,      \* Home: useState(false)
    lastKeyTime,   \* Home: useState(0)
    activeEffect,  \* Home: useState<effect | null>
    rendered,      \* the values the last render committed (effect deps, closures)
    timers,        \* deadlines of the pending setTimeout(..., 1000) callbacks
    lastMove,      \* the last sendMove call: direction, time, whether it reached socket.emit
    deadSince,     \* history: when the local snake was first processed as dead since it was
                   \* last processed as alive or the view last reverted (0: not dead)
    evt,           \* history: the last event the program handled
    effect,        \* EffectIndicator: the effect prop of its last render (Null: none,
                   \* or the indicator is not mounted)
    timeLeft,      \* EffectIndicator: useState(0)
    updateTimer,   \* EffectIndicator: when the setInterval callback is next due (0: no
                   \* interval is active)
    effectQueued,  \* Home: setActiveEffect queued an update the indicator has not rendered
    listeners,     \* keydown listeners registered on window by the keyboard effect
    intervals,     \* intervals of EffectIndicator that were set and not cleared
    ctx2d,         \* GameCanvas: the drawing state of the canvas' 2d context
    surface,       \* GameCanvas: what is painted on the canvas, as draw operations
    frame,         \* GameCanvas: the props of the last run of the render effect
    lobbyShown     \* Lobby: its own useState<LobbyStatus> (Null: Lobby is not mounted)

hookVars == <<gameState, lobbyStatus, isConnected, playerId, unprocessed>>
homeVars == <<showGame, lastKeyTime, activeEffect>>
sockVars == <<sockState, sockId, attempts>>
indicatorVars == <<effect, timeLeft, updateTimer, effectQueued>>
resourceVars == <<listeners, intervals>>
canvasVars == <<ctx2d, surface, frame>>
vars == <<now, mounted, sockState, sockId, attempts, sendBuffer, gameState,
          lobbyStatus, isConnected, playerId, unprocessed, showGame, lastKeyTime,
          activeEffect, rendered, timers, lastMove, deadSince, evt, effect,
          timeLeft, updateTimer, effectQueued, listeners, intervals, ctx2d,
          surface, frame, lobbyShown>>

-----------------------------------------------------------------------------
(* Program constants *)

ReconnectionAttempts == 5
DeathDelay == 1000
KeyInterval == 50
IntervalDelay == 100
MsPerSecond == 1000
NominalSeconds == 10

CELL_SIZE == 12
DefaultWidth == 100
DefaultHeight == 60

(* Bounds of the model *)

Epoch == 100          \* Date.now() at mount (any value >= KeyInterval)
FineStep == 30        \* the fine grain of the sampled clock, in ms
FineTicks == 2        \* fine steps sampled after each coarse point
MaxRounds == 1        \* coarse points: Epoch + k * DeathDelay, k <= MaxRounds
MaxTimers == 2        \* pending death-revert timers
MaxPending == 2       \* gameState events queued between two renders
MaxBuffer == 1        \* packets in socket.io's sendBuffer
IndicatorStep == 50   \* grain of the clock while snapshots with effects arrive, in ms
MaxSteps == 3         \* snapshots arrive until Epoch + IndicatorStep * MaxSteps
BoardWidth == 2       \* gameWidth of the snapshots drawn on the canvas, in cells
BoardHeight == 1      \* gameHeight of the snapshots drawn on the canvas, in cells

-----------------------------------------------------------------------------
(* Values *)

Null == [null |-> TRUE]          \* null / undefined of an object-valued variable
NoId == "null"                   \* null of a string-valued variable

Ids == {"a", "b"}                \* socket ids the server hands out

SpeedBoost == [type |-> "speedBoost", endTime |-> Epoch + 5000]
SlowDown == [type |-> "slowDown", endTime |-> Epoch + 3000]

Snake(id, alive, effects) ==
    [id |-> id, body |-> <<[x |-> 1, y |-> 1]>>, alive |-> alive, score |-> 0,
     activeEffects |-> effects]

Snapshot(status, snakes) == [status |-> status, snakes |-> snakes]

\* gameState payloads of the server seen by the session whose id is "a"
Snapshots ==
    {Snapshot("lobby", <<>>),
     Snapshot("playing", <<Snake("a", TRUE, <<>>)>>),
     Snapshot("playing", <<Snake("a", TRUE, <<SlowDown, SpeedBoost>>)>>),
     Snapshot("playing", <<Snake("a", FALSE, <<SpeedBoost>>)>>),
     Snapshot("finished", <<Snake("a", FALSE, <<>>)>>)}

\* gameState payloads used where the keyboard is what is examined
InputSnapshots ==
    {Snapshot("lobby", <<>>),
     Snapshot("playing", <<Snake("a", TRUE, <<>>)>>),
     Snapshot("playing", <<Snake("a", FALSE, <<>>)>>)}

\* gameState payloads used where the connection is what is examined
SessionSnapshots ==
    {Snapshot("lobby", <<>>),
     Snapshot("playing", <<Snake("b", TRUE, <<>>), Snake("a", TRUE, <<SpeedBoost>>)>>)}

\* effects that expire within the time the indicator is followed
BoostA == [type |-> "speedBoost", endTime |-> Epoch + 250]
BoostB == [type |-> "speedBoost", endTime |-> Epoch + 1250]

\* an effect granted for longer than the nominal 10 s of the progress bar
BoostC == [type |-> "slowDown", endTime |-> Epoch + 10250]

\* gameState payloads used where the effect indicator is what is examined
IndicatorSnapshots ==
    {Snapshot("playing", <<Snake("a", TRUE, <<>>)>>),
     Snapshot("playing", <<Snake("a", TRUE, <<BoostA>>)>>),
     Snapshot("playing", <<Snake("a", TRUE, <<BoostB>>)>>),
     Snapshot("playing", <<Snake("a", TRUE, <<BoostC>>)>>)}

COLORS ==
    [background |-> "#1a1a1a", grid |-> "#444", playerSnake |-> "#4CAF50",
     otherSnake |-> "#2196F3", food |-> "#FF9800", dead |-> "#666", text |-> "#FFF"]

\* the drawing state of a 2d context as the canvas creates it
NewContext ==
    [fillStyle |-> "#000000", strokeStyle |-> "#000000", lineWidth |-> "1",
     font |-> "10px sans-serif", textAlign |-> "start", textBaseline |-> "alphabetic"]

\* snakes of the snapshots drawn on the canvas
CanvasSnake(id, alive) ==
    [id |-> id,
     body |-> IF id = "a" THEN <<[x |-> 1, y |-> 0], [x |-> 0, y |-> 0]>>
                          ELSE <<[x |-> 0, y |-> 0]>>,
     alive |-> alive,
     score |-> IF id = "a" THEN 10 ELSE 0,
     activeEffects |-> <<>>]

CanvasSnakes ==
    {<<>>}
    \cup {<<CanvasSnake(i, al)>> : i \in Ids, al \in BOOLEAN}
    \cup {<<CanvasSnake(p[1], al), CanvasSnake(p[2], bl)>> :
              p \in {q \in Ids \X Ids : q[1] # q[2]}, al \in BOOLEAN, bl \in BOOLEAN}

CanvasFood ==
    {<<>>,
     <<[x |-> 1, y |-> 0, type |-> "apple"]>>,
     <<[x |-> 0, y |-> 0, type |-> "mango"], [x |-> 1, y |-> 0, type |-> "apple"]>>}

CanvasState(snakes, food, width, height) ==
    [status |-> "playing", snakes |-> snakes, food |-> food, gameWidth |-> width,
     gameHeight |-> height]

\* the gameState props GameCanvas is rendered with: none (the canvas then has
\* its default size), and snapshots of a small board
CanvasStates ==
    {Null}
    \cup {CanvasState(sn, fd, BoardWidth, BoardHeight) :
              sn \in CanvasSnakes, fd \in CanvasFood}

\* the playerId props GameCanvas is rendered with
PlayerIds == Ids \cup {NoId}

Lobbies == {[status |-> "lobby", playerCount |-> 1, players |-> <<"a">>]}

\* names of events the server may emit for which the hook registers no listener
UnhandledEvents == {"playerJoined"}

Keys == {"ArrowUp", "w", "ArrowDown", "S", "ArrowLeft", "a", "ArrowRight", "D", "x"}

\* keys used where the timing of key events is what is examined
InputKeys == {"ArrowUp", "x"}

TimePoints ==
    {Epoch + (DeathDelay * k) + (FineStep * j) : k \in 0..MaxRounds, j \in 0..FineTicks}

\* the last time at which the server sends a snapshot to the indicator's page
Horizon == Epoch + (IndicatorStep * MaxSteps)

IndicatorPoints == {Epoch + (IndicatorStep * k) : k \in 0..MaxSteps}

-----------------------------------------------------------------------------
(* Pure helpers *)

\* gameState?.status
Status(gs) == IF gs = Null THEN "undefined" ELSE gs.status

\* gameState.snakes.find((snake) => snake.id === playerId)
Find(snakes, id) ==
    IF \E i \in 1..Len(snakes) : snakes[i].id = id
    THEN snakes[CHOOSE i \in 1..Len(snakes) :
                    /\ snakes[i].id = id
                    /\ \A j \in 1..(i - 1) : snakes[j].id # id]
    ELSE Null

\* variant: the key is compared as typed
ToLowerCase_asTyped(key) == key

\* event.key.toLowerCase()
ToLowerCase(key) ==
    CASE key = "ArrowUp" -> "arrowup"
      [] key = "ArrowDown" -> "arrowdown"
      [] key = "ArrowLeft" -> "arrowleft"
      [] key = "ArrowRight" -> "arrowright"
      [] key = "S" -> "s"
      [] key = "D" -> "d"
      [] OTHER -> key

\* the switch of handleKeyDown: the direction of a key, Null for the default branch
KeyDirection(key) ==
    LET k == ToLowerCase(key) IN
    CASE k \in {"arrowup", "w"} -> [dx |-> 0, dy |-> -1]
      [] k \in {"arrowdown", "s"} -> [dx |-> 0, dy |-> 1]
      [] k \in {"arrowleft", "a"} -> [dx |-> -1, dy |-> 0]
      [] k \in {"arrowright", "d"} -> [dx |-> 1, dy |-> 0]
      [] OTHER -> Null

\* variant: the interval test never drops an event
Throttled_off(t) == FALSE

\* if (now - lastKeyTime < 50) return;
Throttled(t) == t - lastKeyTime < KeyInterval

\* variant: the first effect of the local snake is selected, alive or not
SelectEffect_anyLife(gs, id) ==
    LET playerSnake == Find(gs.snakes, id) IN
    IF playerSnake # Null /\ Len(playerSnake.activeEffects) > 0
    THEN playerSnake.activeEffects[1]
    ELSE Null

\* the effect the Home page selects from a snapshot for the local player
SelectEffect(gs, id) ==
    LET playerSnake == Find(gs.snakes, id) IN
    IF playerSnake # Null /\ playerSnake.alive /\ Len(playerSnake.activeEffects) > 0
    THEN playerSnake.activeEffects[1]
    ELSE Null

\* playerSnake && !playerSnake.alive
LocalDead(gs, id) ==
    LET playerSnake == Find(gs.snakes, id) IN
    playerSnake # Null /\ ~playerSnake.alive

\* Math.max(0, n)
Max0(n) == IF n > 0 THEN n ELSE 0

\* variant: the seconds are rounded down
CeilSeconds_floor(remaining) == remaining \div MsPerSecond

\* Math.ceil(remaining / 1000) of a non-negative integer
CeilSeconds(remaining) == (remaining + MsPerSecond - 1) \div MsPerSecond

\* updateTimer's remainingSeconds for the effect e at time t
RemainingSeconds(e, t) == CeilSeconds(Max0(e.endTime - t))

\* what EffectIndicator returns: null, or the panel with its type and seconds
Display(e, left) ==
    IF e = Null \/ left <= 0 THEN Null ELSE [type |-> e.type, seconds |-> left]

\* variant: the bar is capped at its full width
Percentage_capped(left) ==
    IF left > NominalSeconds THEN 100 ELSE (left * 100) \div NominalSeconds

\* const percentage = (timeLeft / 10) * 100, for the integer timeLeft (the exact
\* value; the floating-point result is within one unit in the last place of it)
Percentage(left) == (left * 100) \div NominalSeconds

\* the panel EffectIndicator returns: its seconds and the width of its bar
Panel(e, left) ==
    IF Display(e, left) = Null THEN Null
    ELSE [seconds |-> left, width |-> Percentage(left)]

\* what the Home page returns for the values of a render
View(r) ==
    IF ~r.isConnected THEN "loading"
    ELSE IF ~r.showGame THEN "lobby"
    ELSE "game"

-----------------------------------------------------------------------------
(* Initial state: Home mounted, first render committed, effects run, io() called *)

Init ==
    /\ now = Epoch
    /\ mounted = TRUE
    /\ sockState = "opening"
    /\ sockId = NoId
    /\ attempts = 0
    /\ sendBuffer = <<>>
    /\ gameState = Null
    /\ lobbyStatus = Null
    /\ isConnected = FALSE
    /\ playerId = NoId
    /\ unprocessed = 0
    /\ showGame = FALSE
    /\ lastKeyTime = 0
    /\ activeEffect = Null
    /\ rendered = [gameState |-> Null, playerId |-> NoId, showGame |-> FALSE,
                   isConnected |-> FALSE]
    /\ timers = <<>>
    /\ lastMove = Null
    /\ deadSince = 0
    /\ evt = [kind |-> "mount"]
    /\ effect = Null
    /\ timeLeft = 0
    /\ updateTimer = 0
    /\ effectQueued = FALSE
    /\ listeners = 0
    /\ intervals = 0
    /\ ctx2d = NewContext
    /\ surface = <<>>
    /\ frame = Null
    /\ lobbyShown = Null

-----------------------------------------------------------------------------
(* useWebSocket: the listeners registered on the socket *)

\* variant: the local id is kept once set (a reconnect does not replace it)
OnConnect_keepId(id) ==
    /\ isConnected' = TRUE
    /\ playerId' = IF playerId = NoId THEN id ELSE playerId
    /\ UNCHANGED <<gameState, lobbyStatus, unprocessed>>

\* socket.on('connect', ...)
OnConnect(id) ==
    /\ isConnected' = TRUE
    /\ playerId' = id
    /\ UNCHANGED <<gameState, lobbyStatus, unprocessed>>

\* socket.on('lobbyUpdate', ...)
OnLobbyUpdate(status) ==
    /\ lobbyStatus' = status
    /\ UNCHANGED <<gameState, isConnected, playerId, unprocessed>>

\* socket.on('gameState', ...)
OnGameState(state) ==
    /\ gameState' = state
    /\ unprocessed' = unprocessed + 1
    /\ UNCHANGED <<lobbyStatus, isConnected, playerId>>

\* variant: the confirmation clears the held snapshot
OnGameStarted_clear ==
    /\ gameState' = Null
    /\ UNCHANGED <<lobbyStatus, isConnected, playerId, unprocessed>>

\* socket.on('gameStarted', ...)
OnGameStarted == UNCHANGED hookVars

\* variant: the held snapshot is cleared with the connection flag
OnDisconnect_clear ==
    /\ isConnected' = FALSE
    /\ gameState' = Null
    /\ UNCHANGED <<lobbyStatus, playerId, unprocessed>>

\* socket.on('disconnect', ...)
OnDisconnect ==
    /\ isConnected' = FALSE
    /\ UNCHANGED <<gameState, lobbyStatus, playerId, unprocessed>>

\* socket.on('connect_error', ...)
OnConnectError == UNCHANGED hookVars

-----------------------------------------------------------------------------
(* useWebSocket: the commands *)

\* socket.emit(...) of socket.io: sent when connected, buffered until the next
\* connect otherwise
SocketEmit(packet) ==
    IF sockState = "open"
    THEN UNCHANGED sendBuffer
    ELSE sendBuffer' = Append(sendBuffer, packet)

\* sendMove of the render whose isConnected was `connected`
sendMove(direction, connected) ==
    /\ lastMove' = [direction |-> direction, at |-> now, emitted |-> connected]
    /\ IF connected
       THEN SocketEmit([ev |-> "move", direction |-> direction])
       ELSE UNCHANGED sendBuffer

\* startGame of the render whose isConnected was `connected`
startGame(connected) ==
    IF connected
    THEN SocketEmit([ev |-> "startGame"])
    ELSE UNCHANGED sendBuffer

-----------------------------------------------------------------------------
(* The socket.io client, as configured by io(url, {reconnection: true,      *)
(* reconnectionDelay: 1000, reconnectionDelayMax: 5000,                    *)
(* reconnectionAttempts: 5})                                               *)

\* the connection attempt in flight succeeds: a new session with a new id
Connect(id) ==
    /\ sockState = "opening"
    /\ sockState' = "open"
    /\ sockId' = id
    /\ attempts' = 0
    /\ sendBuffer' = <<>>
    /\ OnConnect(id)
    /\ evt' = [kind |-> "connect"]
    /\ UNCHANGED <<now, mounted, homeVars, rendered, timers, lastMove, deadSince,
                   indicatorVars, resourceVars, canvasVars, lobbyShown>>

\* the connection attempt in flight fails: retry later, or give up at the cap
ConnectError ==
    /\ sockState = "opening"
    /\ sockState' = IF attempts < ReconnectionAttempts THEN "backoff" ELSE "failed"
    /\ OnConnectError
    /\ evt' = [kind |-> "connect_error"]
    /\ UNCHANGED <<now, mounted, sockId, attempts, sendBuffer, homeVars, rendered,
                   timers, lastMove, deadSince,
                   indicatorVars, resourceVars, canvasVars, lobbyShown>>

\* the reconnection delay has elapsed: the next attempt starts
Reconnect ==
    /\ sockState = "backoff"
    /\ sockState' = "opening"
    /\ attempts' = attempts + 1
    /\ evt' = [kind |-> "reconnect_attempt"]
    /\ UNCHANGED <<now, mounted, sockId, sendBuffer, hookVars, homeVars, rendered,
                   timers, lastMove, deadSince,
                   indicatorVars, resourceVars, canvasVars, lobbyShown>>

\* the transport of an open session drops
Disconnect ==
    /\ sockState = "open"
    /\ sockState' = "backoff"
    /\ sockId' = NoId
    /\ OnDisconnect
    /\ evt' = [kind |-> "disconnect"]
    /\ UNCHANGED <<now, mounted, attempts, sendBuffer, homeVars, rendered, timers,
                   lastMove, deadSince,
                   indicatorVars, resourceVars, canvasVars, lobbyShown>>

\* the server emits gameState
GameState(state) ==
    /\ sockState = "open"
    /\ unprocessed < MaxPending
    /\ OnGameState(state)
    /\ evt' = [kind |-> "gameState"]
    /\ UNCHANGED <<now, mounted, sockVars, sendBuffer, homeVars, rendered, timers,
                   lastMove, deadSince,
                   indicatorVars, resourceVars, canvasVars, lobbyShown>>

\* Lobby: const [lobbyStatus, setLobbyStatus] = useState({...}) of a new mount
InitialLobbyStatus == [status |-> "lobby", playerCount |-> 0, players |-> <<>>]

\* Lobby: handleLobbyUpdate, registered on the socket while Lobby is mounted
HandleLobbyUpdate(held, data) == IF held = Null THEN Null ELSE data

\* the server emits lobbyUpdate: the socket calls the listener of the hook and,
\* if Lobby is mounted, the listener of Lobby
LobbyUpdate(status) ==
    /\ sockState = "open"
    /\ OnLobbyUpdate(status)
    /\ lobbyShown' = HandleLobbyUpdate(lobbyShown, status)
    /\ evt' = [kind |-> "lobbyUpdate"]
    /\ UNCHANGED <<now, mounted, sockVars, sendBuffer, homeVars, rendered, timers,
                   lastMove, deadSince,
                   indicatorVars, resourceVars, canvasVars>>

\* the server emits gameStarted
GameStarted ==
    /\ sockState = "open"
    /\ OnGameStarted
    /\ evt' = [kind |-> "gameStarted"]
    /\ UNCHANGED <<now, mounted, sockVars, sendBuffer, homeVars, rendered, timers,
                   lastMove, deadSince,
                   indicatorVars, resourceVars, canvasVars, lobbyShown>>

\* the server emits an event the hook registered no listener for: the socket
\* finds no callback to call
Unhandled(name) ==
    /\ sockState = "open"
    /\ UNCHANGED hookVars
    /\ evt' = [kind |-> "unhandled", name |-> name]
    /\ UNCHANGED <<now, mounted, sockVars, sendBuffer, homeVars, rendered, timers,
                   lastMove, deadSince,
                   indicatorVars, resourceVars, canvasVars, lobbyShown>>

-----------------------------------------------------------------------------
(* Home: render and effects *)

\* a render is due: a state the last render did not see
RenderPending ==
    /\ mounted
    /\ \/ unprocessed > 0
       \/ rendered # [gameState |-> gameState, playerId |-> playerId,
                      showGame |-> showGame, isConnected |-> isConnected]

\* the dependency [gameState?.status] of the first effect changed
StatusChanged == Status(gameState) # Status(rendered.gameState)

\* the dependencies [gameState?.snakes, gameState?.status, playerId, showGame] of
\* the second effect changed (every gameState event carries a new snakes array)
DeathDepsChanged ==
    \/ unprocessed > 0
    \/ StatusChanged
    \/ playerId # rendered.playerId
    \/ showGame # rendered.showGame

\* variant: the first effect runs for every snapshot received
ShowGameEffect_everySnapshot == unprocessed > 0 /\ Status(gameState) = "playing"

\* first effect: if (gameState?.status === 'playing') setShowGame(true)
ShowGameEffect == StatusChanged /\ Status(gameState) = "playing"

\* second effect, past its guard: if (!gameState || !playerId || !showGame) return;
DeathEffectRuns ==
    /\ DeathDepsChanged
    /\ gameState # Null
    /\ playerId # NoId
    /\ showGame

\* second effect: setTimeout(() => setShowGame(false), 1000) when the local snake is dead
ArmTimers(ts) ==
    IF LocalDead(gameState, playerId) THEN Append(ts, now + DeathDelay) ELSE ts

\* second effect: setActiveEffect(currentEffect) is given an object of the snapshot
\* (never the object held, which came from an earlier snapshot or another snake)
\* and setActiveEffect(null) changes the state unless it is null already
EffectReplaced == SelectEffect(gameState, playerId) # Null \/ activeEffect # Null

\* variant: the cleanup of the keyboard effect removes nothing
RemoveListener_none(n, registered) == n

\* the cleanup of the keyboard effect: window.removeEventListener('keydown',
\* handleKeyDown), returned only by a run that registered the listener
RemoveListener(n, registered) == IF registered THEN n - 1 ELSE n

\* the dependencies [sendMove, lastKeyTime, showGame] of the keyboard effect changed
\* in a render that queued updates commit (sendMove is remade when isConnected changes)
KeyboardDepsChanged ==
    isConnected # rendered.isConnected \/ showGame # rendered.showGame

\* the keyboard effect of a render: when a dependency changed, the cleanup of the
\* previous run (which saw showGame = before), then
\* if (!showGame) return; window.addEventListener('keydown', handleKeyDown)
KeyboardEffect(n, depsChanged, before, show) ==
    IF depsChanged
    THEN RemoveListener(n, before) + (IF show THEN 1 ELSE 0)
    ELSE n

\* Home returns <Lobby> only for the lobby view: Lobby is unmounted (its state is
\* lost) when the view of a render is another, mounted with its initial state
\* when the view is the lobby again, and keeps its state in between
LobbyAfterRender(held, view) ==
    IF view # "lobby" THEN Null
    ELSE IF held = Null THEN InitialLobbyStatus
    ELSE held

\* React commits the queued updates and runs the effects whose dependencies changed
Render ==
    /\ RenderPending
    /\ DeathEffectRuns /\ LocalDead(gameState, playerId) => Len(timers) < MaxTimers
    /\ rendered' = [gameState |-> gameState, playerId |-> playerId,
                    showGame |-> showGame, isConnected |-> isConnected]
    /\ unprocessed' = 0
    /\ showGame' = IF ShowGameEffect THEN TRUE ELSE showGame
    /\ IF DeathEffectRuns
       THEN /\ timers' = ArmTimers(timers)
            /\ activeEffect' = SelectEffect(gameState, playerId)
            /\ deadSince' = IF LocalDead(gameState, playerId)
                            THEN (IF deadSince = 0 THEN now ELSE deadSince)
                            ELSE IF Find(gameState.snakes, playerId) # Null
                            THEN 0
                            ELSE deadSince
       ELSE UNCHANGED <<timers, activeEffect, deadSince>>
    /\ effectQueued' = IF DeathEffectRuns /\ EffectReplaced THEN TRUE ELSE effectQueued
    /\ listeners' = KeyboardEffect(listeners, KeyboardDepsChanged, rendered.showGame,
                                   showGame)
    /\ lobbyShown' = LobbyAfterRender(lobbyShown, View(rendered'))
    /\ UNCHANGED <<now, mounted, sockVars, sendBuffer, gameState, lobbyStatus,
                   isConnected, playerId, lastKeyTime, lastMove, evt,
                   effect, timeLeft, updateTimer, intervals, canvasVars>>

\* a death-revert timeout fires: setShowGame(false)
FireTimer ==
    /\ timers # <<>>
    /\ Head(timers) <= now
    /\ timers' = Tail(timers)
    /\ showGame' = IF mounted THEN FALSE ELSE showGame
    /\ deadSince' = 0
    /\ evt' = [kind |-> "timeout"]
    /\ UNCHANGED <<now, mounted, sockVars, sendBuffer, hookVars, lastKeyTime,
                   activeEffect, rendered, lastMove,
                   indicatorVars, resourceVars, canvasVars, lobbyShown>>

-----------------------------------------------------------------------------
(* Home: keyboard *)

\* variant: the keyboard effect registers the listener whatever showGame is
ListenerRegistered_always == mounted

\* the keyboard effect of the last render registered handleKeyDown:
\* if (!showGame) return; window.addEventListener('keydown', handleKeyDown)
ListenerRegistered == mounted /\ rendered.showGame

\* handleKeyDown, registered by the render that saw showGame true; it closes over
\* sendMove of that render.  setLastKeyTime(now) is rendered at once.
KeyDown(key) ==
    /\ ListenerRegistered
    /\ sockState = "open" \/ Len(sendBuffer) < MaxBuffer
    /\ IF Throttled(now) \/ KeyDirection(key) = Null
       THEN UNCHANGED <<lastKeyTime, sendBuffer, lastMove>>
       ELSE /\ sendMove(KeyDirection(key), rendered.isConnected)
            /\ lastKeyTime' = now
    /\ listeners' = KeyboardEffect(listeners, ~(Throttled(now) \/ KeyDirection(key) = Null),
                                   rendered.showGame, rendered.showGame)
    /\ evt' = [kind |-> "keydown", key |-> key, direction |-> KeyDirection(key),
               at |-> now]
    /\ UNCHANGED <<now, mounted, sockVars, hookVars, showGame, activeEffect,
                   rendered, timers, deadSince,
                   indicatorVars, intervals, canvasVars, lobbyShown>>

\* a keydown event while no listener is registered (the effect returned early
\* or its cleanup removed the listener): no code of the page runs
KeyIgnored(key) ==
    /\ ~ListenerRegistered
    /\ evt' = [kind |-> "keyignored", key |-> key, direction |-> KeyDirection(key),
               at |-> now]
    /\ UNCHANGED <<now, mounted, sockVars, sendBuffer, hookVars, homeVars, rendered,
                   timers, lastMove, deadSince,
                   indicatorVars, resourceVars, canvasVars, lobbyShown>>

\* a consumer of the hook calls startGame (no component of the repository does,
\* so the action is part of no specification below)
StartGame ==
    /\ mounted
    /\ sockState = "open" \/ Len(sendBuffer) < MaxBuffer
    /\ startGame(rendered.isConnected)
    /\ evt' = [kind |-> "startGame"]
    /\ UNCHANGED <<now, mounted, sockVars, hookVars, homeVars, rendered, timers,
                   lastMove, deadSince,
                   indicatorVars, resourceVars, canvasVars, lobbyShown>>

-----------------------------------------------------------------------------
(* EffectIndicator, rendered inside the game view with effect={activeEffect} *)

\* the effect prop Home passes (no indicator outside the game view)
IndicatorProp ==
    IF mounted /\ View(rendered) = "game" THEN activeEffect ELSE Null

\* the indicator has to render: a new effect object was set, or it is mounted
\* or unmounted by the view
IndicatorPending ==
    /\ mounted
    /\ effectQueued \/ ((IndicatorProp = Null) # (effect = Null))

\* variant: clearInterval leaves the interval running
ClearInterval_none(n, active) == n

\* clearInterval(interval): cancels the interval unless it was cleared already
ClearInterval(n, active) == IF active THEN n - 1 ELSE n

\* Home re-renders after setActiveEffect (or a change of view) and the indicator
\* commits the prop; its effect on [effect] runs: the cleanup clears the running
\* interval, then setTimeLeft(0) for null, a new setInterval(..., 100) otherwise.
\* An unmounted indicator loses its state (useState(0) on the next mount).
RenderIndicator ==
    /\ IndicatorPending
    /\ ~RenderPending
    /\ effect' = IndicatorProp
    /\ effectQueued' = FALSE
    /\ IF IndicatorProp = Null
       THEN timeLeft' = 0 /\ updateTimer' = 0
       ELSE timeLeft' = timeLeft /\ updateTimer' = now + IntervalDelay
    /\ intervals' = ClearInterval(intervals, updateTimer # 0)
                      + (IF IndicatorProp = Null THEN 0 ELSE 1)
    /\ evt' = [kind |-> "renderIndicator"]
    /\ UNCHANGED <<now, mounted, sockVars, sendBuffer, hookVars, homeVars, rendered,
                   timers, lastMove, deadSince, listeners, canvasVars, lobbyShown>>

\* variant: the callback never clears its interval
IntervalTick_noCancel ==
    /\ updateTimer # 0
    /\ updateTimer <= now
    /\ timeLeft' = RemainingSeconds(effect, now)
    /\ updateTimer' = updateTimer + IntervalDelay
    /\ evt' = [kind |-> "interval"]
    /\ UNCHANGED <<now, mounted, sockVars, sendBuffer, hookVars, homeVars, rendered,
                   timers, lastMove, deadSince, effect, effectQueued, resourceVars,
                   canvasVars, lobbyShown>>

\* the setInterval callback: setTimeLeft(remainingSeconds), clearInterval at 0
IntervalTick ==
    /\ updateTimer # 0
    /\ updateTimer <= now
    /\ timeLeft' = RemainingSeconds(effect, now)
    /\ updateTimer' = IF Max0(effect.endTime - now) <= 0
                      THEN 0
                      ELSE updateTimer + IntervalDelay
    /\ intervals' = IF Max0(effect.endTime - now) <= 0
                    THEN ClearInterval(intervals, TRUE)
                    ELSE intervals
    /\ evt' = [kind |-> "interval"]
    /\ UNCHANGED <<now, mounted, sockVars, sendBuffer, hookVars, homeVars, rendered,
                   timers, lastMove, deadSince, effect, effectQueued, listeners,
                   canvasVars, lobbyShown>>

\* the deadlines of the pending timeouts and of the running interval
Deadlines ==
    {timers[i] : i \in 1..Len(timers)} \cup (IF updateTimer = 0 THEN {} ELSE {updateTimer})

\* the clock advances to a later sampled time or to the next deadline; a due
\* callback fires first and a pending render is done first
TickIndicator ==
    /\ ~RenderPending
    /\ ~IndicatorPending
    /\ \E t \in IndicatorPoints \cup Deadlines :
          /\ t > now
          /\ \A d \in Deadlines : d >= t
          /\ now' = t
    /\ UNCHANGED <<mounted, sockVars, sendBuffer, hookVars, homeVars, rendered,
                   timers, lastMove, deadSince, evt, indicatorVars, resourceVars, canvasVars, lobbyShown>>

-----------------------------------------------------------------------------
(* GameCanvas: the render effect on [gameState, playerId] *)

\* gameState?.gameWidth || 100, gameState?.gameHeight || 60
GAME_WIDTH(gs) == IF gs = Null \/ gs.gameWidth = 0 THEN DefaultWidth ELSE gs.gameWidth
GAME_HEIGHT(gs) == IF gs = Null \/ gs.gameHeight = 0 THEN DefaultHeight ELSE gs.gameHeight
CANVAS_WIDTH(gs) == GAME_WIDTH(gs) * CELL_SIZE
CANVAS_HEIGHT(gs) == GAME_HEIGHT(gs) * CELL_SIZE

\* a draw operation with the drawing state it is painted with; layer, of and seg
\* name the statement that issued it (which item of the snapshot, which segment)
Op(layer, of, seg, op, x, y, w, h, text) ==
    [layer |-> layer, of |-> of, seg |-> seg, op |-> op, x |-> x, y |-> y, w |-> w,
     h |-> h, text |-> text, fillStyle |-> "", strokeStyle |-> "", lineWidth |-> "",
     font |-> "", textAlign |-> "", textBaseline |-> ""]

\* ctx.fillRect(x, y, w, h)
FillRect(st, layer, of, seg, x, y, w, h) ==
    [st EXCEPT !.ops = Append(@, [Op(layer, of, seg, "fillRect", x, y, w, h, "")
                                     EXCEPT !.fillStyle = st.c.fillStyle])]

\* ctx.strokeRect(x, y, w, h)
StrokeRect(st, layer, of, seg, x, y, w, h) ==
    [st EXCEPT !.ops = Append(@, [Op(layer, of, seg, "strokeRect", x, y, w, h, "")
                                     EXCEPT !.strokeStyle = st.c.strokeStyle,
                                            !.lineWidth = st.c.lineWidth])]

\* ctx.beginPath(); ctx.moveTo(x, y); ctx.lineTo(x + w, y + h); ctx.stroke()
StrokeLine(st, layer, of, x, y, w, h) ==
    [st EXCEPT !.ops = Append(@, [Op(layer, of, -1, "stroke", x, y, w, h, "")
                                     EXCEPT !.strokeStyle = st.c.strokeStyle,
                                            !.lineWidth = st.c.lineWidth])]

\* ctx.fillText(text, x, y)
FillText(st, layer, of, text, x, y) ==
    [st EXCEPT !.ops = Append(@, [Op(layer, of, -1, "fillText", x, y, 0, 0, text)
                                     EXCEPT !.fillStyle = st.c.fillStyle,
                                            !.font = st.c.font,
                                            !.textAlign = st.c.textAlign,
                                            !.textBaseline = st.c.textBaseline])]

\* variant: the canvas is not cleared
DrawBackground_none(st, gs) == st

\* ctx.fillStyle = COLORS.background; ctx.fillRect(0, 0, CANVAS_WIDTH, CANVAS_HEIGHT)
DrawBackground(st, gs) ==
    FillRect([st EXCEPT !.c.fillStyle = COLORS.background], "background", 0, -1,
             0, 0, CANVAS_WIDTH(gs), CANVAS_HEIGHT(gs))

\* for (let i = 0; i <= GAME_WIDTH; i++) { a vertical line at i * CELL_SIZE }
RECURSIVE VerticalLines(_, _, _)
VerticalLines(st, gs, i) ==
    IF i > GAME_WIDTH(gs) THEN st
    ELSE VerticalLines(StrokeLine(st, "grid", i, i * CELL_SIZE, 0, 0, CANVAS_HEIGHT(gs)),
                       gs, i + 1)

\* for (let i = 0; i <= GAME_HEIGHT; i++) { a horizontal line at i * CELL_SIZE }
RECURSIVE HorizontalLines(_, _, _)
HorizontalLines(st, gs, i) ==
    IF i > GAME_HEIGHT(gs) THEN st
    ELSE HorizontalLines(StrokeLine(st, "grid", i, 0, i * CELL_SIZE, CANVAS_WIDTH(gs), 0),
                         gs, i + 1)

\* ctx.strokeStyle = COLORS.grid; ctx.lineWidth = 0.5; the two loops
DrawGrid(st, gs) ==
    HorizontalLines(
        VerticalLines([st EXCEPT !.c.strokeStyle = COLORS.grid, !.c.lineWidth = "0.5"],
                      gs, 0),
        gs, 0)

\* fruitEmojis[fruit.type] || apple (the emoji is named, not written)
FruitEmoji(type) == IF type = "mango" THEN "emoji mango" ELSE "emoji apple"

\* drawFood
DrawFood(st, fruit, of) ==
    FillText([st EXCEPT !.c.font = "bold 8px Arial", !.c.textAlign = "center",
                        !.c.textBaseline = "middle"],
             "food", of, FruitEmoji(fruit.type),
             (fruit.x * CELL_SIZE) + (CELL_SIZE \div 2),
             (fruit.y * CELL_SIZE) + (CELL_SIZE \div 2))

\* gameState.food.forEach((fruit) => drawFood(ctx, fruit)), from item i on
RECURSIVE DrawAllFood(_, _, _)
DrawAllFood(st, food, i) ==
    IF i > Len(food) THEN st
    ELSE DrawAllFood(DrawFood(st, food[i], i), food, i + 1)

\* variant: a dead snake keeps the colour of its owner
CurrentColor_ignoreAlive(snake, isPlayer) ==
    IF isPlayer THEN COLORS.playerSnake ELSE COLORS.otherSnake

\* drawSnake: color = isPlayer ? playerSnake : otherSnake;
\* currentColor = snake.alive ? color : COLORS.dead
CurrentColor(snake, isPlayer) ==
    IF snake.alive
    THEN (IF isPlayer THEN COLORS.playerSnake ELSE COLORS.otherSnake)
    ELSE COLORS.dead

\* drawSnake, the body of its forEach for the segment of (0-based) index
DrawSegment(st, snake, isPlayer, of, index) ==
    LET x == snake.body[index + 1].x * CELL_SIZE
        y == snake.body[index + 1].y * CELL_SIZE
        filled == FillRect([st EXCEPT !.c.fillStyle = CurrentColor(snake, isPlayer)],
                           "snake", of, index, x + 1, y + 1, CELL_SIZE - 2, CELL_SIZE - 2)
    IN  IF index = 0 /\ snake.alive
        THEN StrokeRect([filled EXCEPT !.c.strokeStyle = "rgba(0, 0, 0, 0.3)",
                                       !.c.lineWidth = "2"],
                        "snake", of, index, x + 1, y + 1, CELL_SIZE - 2, CELL_SIZE - 2)
        ELSE filled

\* drawSnake: snake.body.forEach(...), from the segment of index on
RECURSIVE DrawSnake(_, _, _, _, _)
DrawSnake(st, snake, isPlayer, of, index) ==
    IF index >= Len(snake.body) THEN st
    ELSE DrawSnake(DrawSegment(st, snake, isPlayer, of, index), snake, isPlayer, of,
                   index + 1)

\* gameState.snakes.forEach((snake) => drawSnake(ctx, snake, snake.id === playerId))
RECURSIVE DrawAllSnakes(_, _, _, _)
DrawAllSnakes(st, snakes, pid, i) ==
    IF i > Len(snakes) THEN st
    ELSE DrawAllSnakes(DrawSnake(st, snakes[i], snakes[i].id = pid, i, 0), snakes, pid,
                       i + 1)

\* drawUI: the line of the snake of (0-based) index
HudLine(snake, isPlayer) ==
    (IF isPlayer THEN "emoji bust Voce" ELSE "emoji robot Jogador")
    \o " - Score: " \o ToString(snake.score) \o " - "
    \o (IF snake.alive THEN "check Vivo" ELSE "cross Morto")

\* drawUI: snakes.forEach((snake, index) => ...), yOffset = 20 + 25 * index
RECURSIVE DrawLines(_, _, _, _)
DrawLines(st, snakes, pid, i) ==
    IF i > Len(snakes) THEN st
    ELSE LET isPlayer == snakes[i].id = pid
             styled == [st EXCEPT !.c.fillStyle = IF isPlayer THEN COLORS.playerSnake
                                                              ELSE COLORS.otherSnake]
         IN  DrawLines(FillText(styled, "hud", i, HudLine(snakes[i], isPlayer),
                                10, 20 + (25 * (i - 1))),
                       snakes, pid, i + 1)

\* drawUI
DrawUI(st, snakes, pid) ==
    DrawLines([st EXCEPT !.c.fillStyle = COLORS.text, !.c.font = "bold 14px Arial",
                         !.c.textAlign = "left"],
              snakes, pid, 1)

\* variant: the snakes are drawn before the food
RenderEffect_snakesFirst(c, gs, pid) ==
    DrawUI(DrawAllFood(DrawAllSnakes(DrawGrid(DrawBackground([c |-> c, ops |-> <<>>], gs),
                                              gs),
                                     gs.snakes, pid, 1),
                       gs.food, 1),
           gs.snakes, pid)

\* the render effect past its guards, on a context in the drawing state c: the
\* drawing state it leaves and the draw operations it issued, in order
RenderEffect(c, gs, pid) ==
    DrawUI(DrawAllSnakes(DrawAllFood(DrawGrid(DrawBackground([c |-> c, ops |-> <<>>], gs),
                                              gs),
                                     gs.food, 1),
                         gs.snakes, pid, 1),
           gs.snakes, pid)

\* the canvas after the operations ops are painted on it: an opaque fillRect of
\* the whole canvas (w by h pixels) covers everything painted before
RECURSIVE Paint(_, _, _, _)
Paint(surf, ops, w, h) ==
    IF ops = <<>> THEN surf
    ELSE LET o == Head(ops)
             covers == o.op = "fillRect" /\ o.x = 0 /\ o.y = 0 /\ o.w = w /\ o.h = h
         IN  Paint(IF covers THEN <<o>> ELSE Append(surf, o), Tail(ops), w, h)

\* React sets the width and height attributes of the canvas when they change,
\* which clears the canvas and resets its drawing state
Resized(gs) == <<CANVAS_WIDTH(gs), CANVAS_HEIGHT(gs)>> #
               <<CANVAS_WIDTH(IF frame = Null THEN Null ELSE frame.gameState),
                 CANVAS_HEIGHT(IF frame = Null THEN Null ELSE frame.gameState)>>

\* GameCanvas is rendered with the props (gs, pid) and its effect runs:
\* if (!canvas || !gameState) return; then the five layers
DrawFrame(gs, pid) ==
    LET c == IF Resized(gs) THEN NewContext ELSE ctx2d
        surf == IF Resized(gs) THEN <<>> ELSE surface
        st == RenderEffect(c, gs, pid)
    IN  /\ frame' = [gameState |-> gs, playerId |-> pid]
        /\ IF gs = Null
           THEN ctx2d' = c /\ surface' = surf
           ELSE /\ ctx2d' = st.c
                /\ surface' = Paint(surf, st.ops, CANVAS_WIDTH(gs), CANVAS_HEIGHT(gs))
        /\ UNCHANGED <<now, mounted, sockVars, sendBuffer, hookVars, homeVars, rendered,
                       timers, lastMove, deadSince, evt, indicatorVars, resourceVars,
                       lobbyShown>>

-----------------------------------------------------------------------------
(* Teardown and time *)

\* variant: the hook's cleanup leaves the socket as it is
Unmount_leak ==
    /\ mounted
    /\ mounted' = FALSE
    /\ effect' = Null
    /\ timeLeft' = 0
    /\ updateTimer' = 0
    /\ effectQueued' = FALSE
    /\ listeners' = RemoveListener(listeners, rendered.showGame)
    /\ intervals' = ClearInterval(intervals, updateTimer # 0)
    /\ evt' = [kind |-> "unmount"]
    /\ lobbyShown' = Null
    /\ UNCHANGED <<now, sockVars, sendBuffer, hookVars, homeVars, rendered, timers,
                   lastMove, deadSince, canvasVars>>

\* Home unmounts: the hook's cleanup calls socket.disconnect() (an open socket
\* emits 'disconnect' to its listener), the keyboard effect's cleanup removes
\* the listener, the indicator's cleanup clears its interval; the timeouts are
\* not cleared
Unmount ==
    /\ mounted
    /\ mounted' = FALSE
    /\ sockState' = "closed"
    /\ sockId' = NoId
    /\ IF sockState = "open" THEN OnDisconnect ELSE UNCHANGED hookVars
    /\ effect' = Null
    /\ timeLeft' = 0
    /\ updateTimer' = 0
    /\ effectQueued' = FALSE
    /\ listeners' = RemoveListener(listeners, rendered.showGame)
    /\ intervals' = ClearInterval(intervals, updateTimer # 0)
    /\ evt' = [kind |-> "unmount"]
    /\ lobbyShown' = Null
    /\ UNCHANGED <<now, attempts, sendBuffer, homeVars, rendered, timers, lastMove,
                   deadSince, canvasVars>>

\* the clock advances to a later sampled time; a due timeout fires first and a
\* pending render is done first
Tick ==
    /\ ~RenderPending
    /\ \E t \in TimePoints :
          /\ t > now
          /\ \A i \in 1..Len(timers) : timers[i] >= t
          /\ now' = t
    /\ UNCHANGED <<mounted, sockVars, sendBuffer, hookVars, homeVars, rendered,
                   timers, lastMove, deadSince, evt,
                   indicatorVars, resourceVars, canvasVars, lobbyShown>>

-----------------------------------------------------------------------------

(* The connection lifecycle: every socket event, the commands, render and     *)
(* teardown, at one instant of the clock.                                    *)

NextSession ==
    \/ \E id \in Ids : Connect(id)
    \/ ConnectError
    \/ Reconnect
    \/ Disconnect
    \/ \E state \in SessionSnapshots : GameState(state)
    \/ \E status \in Lobbies : LobbyUpdate(status)
    \/ GameStarted
    \/ \E name \in UnhandledEvents : Unhandled(name)
    \/ Render
    \/ \E key \in Keys : KeyDown(key)
    \/ Unmount

SpecSession == Init /\ [][NextSession]_vars

(* The Home page over time: snapshots, renders, death-revert timeouts and     *)
(* teardown of the session "a".                                              *)

NextHome ==
    \/ Connect("a")
    \/ \E state \in Snapshots : GameState(state)
    \/ Render
    \/ FireTimer
    \/ Tick
    \/ Unmount

SpecHome == Init /\ [][NextHome]_vars

(* Keyboard input over time: key events while the game view comes and goes   *)
(* and the transport drops.                                                  *)

NextInput ==
    \/ Connect("a")
    \/ Disconnect
    \/ \E state \in InputSnapshots : GameState(state)
    \/ Render
    \/ FireTimer
    \/ \E key \in InputKeys : KeyDown(key)
    \/ \E key \in InputKeys : KeyIgnored(key)
    \/ Tick

SpecInput == Init /\ [][NextInput]_vars

(* The effect indicator over time: snapshots with effects arrive until Horizon, *)
(* the interval runs until it cancels itself or the page is torn down.       *)

NextIndicator ==
    \/ Connect("a")
    \/ \E state \in IndicatorSnapshots : now < Horizon /\ GameState(state)
    \/ Render
    \/ RenderIndicator
    \/ IntervalTick
    \/ TickIndicator
    \/ Unmount

SpecIndicator == Init /\ [][NextIndicator]_vars

\* the same, with what the browser and React guarantee: a due timer callback
\* runs, a scheduled render is done, and time passes (only finitely many
\* events are handled at one instant)
SpecIndicatorLive ==
    /\ SpecIndicator
    /\ WF_vars(IntervalTick)
    /\ SF_vars(TickIndicator)
    /\ WF_vars(Render)
    /\ SF_vars(RenderIndicator)

(* GameCanvas on its own: it is rendered with any props, in any order.         *)

NextCanvas == \E gs \in CanvasStates, pid \in PlayerIds : DrawFrame(gs, pid)

SpecCanvas == Init /\ [][NextCanvas]_vars

-----------------------------------------------------------------------------
(* Properties *)

\* the last render ran the death-detection effect on a snapshot in which the
\* local snake is alive
AliveProcessed ==
    /\ mounted
    /\ rendered.showGame
    /\ rendered.gameState # Null
    /\ rendered.playerId # NoId
    /\ Find(rendered.gameState.snakes, rendered.playerId) # Null
    /\ Find(rendered.gameState.snakes, rendered.playerId).alive

\* a step in which handleKeyDown handled a mapped key
MappedKeyStep ==
    /\ evt'.kind = "keydown"
    /\ evt'.direction # Null
    /\ UNCHANGED <<now, rendered, unprocessed, timers, sockState>>

\* C1: once a snapshot showing the local player alive has been processed, the
\* revert armed by an earlier snapshot showing it dead is cancelled: showGame is
\* never set to false while the latest processed snapshot shows the player alive.
C1_StaleRevertCancelled == [][showGame /\ ~showGame' => ~AliveProcessed]_vars

\* C2: while the local player is shown dead since time deadSince (no superseding
\* alive snapshot, no teardown), showGame stays true until exactly
\* deadSince + 1000 ms: it does not become false at any other time and is not
\* still true after it.
C2_RevertExactlyAfterDelay ==
    [][mounted /\ showGame /\ deadSince # 0 =>
          /\ ~showGame' => now = deadSince + DeathDelay
          /\ now' <= deadSince + DeathDelay]_vars

\* C3: a mapped key event at time now is accepted (sendMove called once with its
\* direction, lastKeyTime := now) iff now - lastKeyTime >= 50, and is otherwise
\* discarded with nothing sent, nothing queued and lastKeyTime unchanged; moves
\* come from accepted key events only and no two moves are less than 50 ms apart.
C3_InputThrottle ==
    [][/\ MappedKeyStep /\ now - lastKeyTime >= KeyInterval =>
             /\ lastKeyTime' = now
             /\ lastMove' = [direction |-> evt'.direction, at |-> now,
                             emitted |-> rendered.isConnected]
       /\ MappedKeyStep /\ now - lastKeyTime < KeyInterval =>
             UNCHANGED <<lastKeyTime, lastMove, sendBuffer>>
       /\ lastMove' # lastMove =>
             /\ MappedKeyStep
             /\ lastMove = Null \/ now - lastMove.at >= KeyInterval
       /\ lastKeyTime' # lastKeyTime => MappedKeyStep]_vars

\* C3 witness: a mapped key event has just been dropped, less than 50 ms after
\* the accepted one whose move was sent
C3_Witness ==
    /\ evt.kind = "keydown"
    /\ evt.direction # Null
    /\ evt.at = now
    /\ lastKeyTime < now
    /\ now - lastKeyTime < KeyInterval
    /\ lastMove # Null
    /\ lastMove.at = lastKeyTime
    /\ lastMove.emitted

\* C4: a command issued while the session is not connected is neither emitted
\* nor kept for later delivery: the socket never holds a buffered packet.
C4_NothingBuffered == sendBuffer = <<>>

\* C5: once snapshot B has been processed, every derived read reflects B only:
\* the active effect is the one B selects, and a death-revert is pending only
\* if B shows the local player dead.
C5_OnlyLatestSnapshot ==
    (mounted /\ ~RenderPending /\ showGame /\ gameState # Null /\ playerId # NoId) =>
        /\ activeEffect = SelectEffect(gameState, playerId)
        /\ timers # <<>> => LocalDead(gameState, playerId)

\* C6: playerId is assigned only by the connect event and is reset to null by
\* every transition into the disconnected state.
C6_LocalIdLifecycle ==
    [][/\ playerId' # playerId => evt'.kind = "connect" /\ sockState' = "open"
       /\ isConnected /\ ~isConnected' => playerId' = NoId]_vars

\* C7: whenever isConnected is true, playerId is non-null and is the id of the
\* current transport session.
C7_ConnectedHasSessionId == isConnected => playerId # NoId /\ playerId = sockId

\* C7 witness: connected again after a disconnect, under a new session id (the
\* last render still holds the id of the previous session)
C7_Witness ==
    /\ isConnected
    /\ sockState = "open"
    /\ rendered.playerId # NoId
    /\ rendered.playerId # sockId

C9_ExhaustionSurfaced == sockState = "failed" => View(rendered) # "loading"

\* C10: every delivered snapshot is processed before the next one is accepted:
\* no gameState event arrives while an earlier one is still unprocessed.
C10_NoCoalescing == unprocessed <= 1

\* a step in which a keydown event occurred, heard by the page or not
KeyStep ==
    /\ evt'.kind \in {"keydown", "keyignored"}
    /\ UNCHANGED <<now, rendered, unprocessed, timers, sockState>>

\* C11: a move command is produced (sendMove called, a packet handed to the
\* socket, lastKeyTime advanced) only by a key event in a state where the page
\* shows the game (showGame true in the committed render); while it is false
\* every key event, mapped or not, sends nothing and leaves lastKeyTime as it is.
C11_InputGating ==
    [][/\ (\/ lastMove' # lastMove
           \/ lastKeyTime' # lastKeyTime
           \/ Len(sendBuffer') > Len(sendBuffer)) =>
             mounted /\ rendered.showGame /\ KeyStep
       /\ KeyStep /\ ~rendered.showGame =>
             UNCHANGED <<lastKeyTime, lastMove, sendBuffer>>]_vars

\* C11 witness: a mapped key, outside the throttle interval, has just been
\* ignored because the page went back from the game view, in which a move had
\* been sent before
C11_Witness ==
    /\ evt.kind = "keyignored"
    /\ evt.direction # Null
    /\ evt.at = now
    /\ now - lastKeyTime >= KeyInterval
    /\ mounted
    /\ isConnected
    /\ ~showGame
    /\ ~rendered.showGame
    /\ lastMove # Null

\* C12: after the page is torn down no timer callback runs any more: no pending
\* death-revert timeout fires and the countdown interval does not tick.
C12_TeardownCancelsTimers ==
    [][~mounted => UNCHANGED <<timers, updateTimer, timeLeft>>]_vars

\* C13: whatever state the connection is in (connecting, connected, waiting to
\* retry, given up), unmounting closes the socket; from then on no reconnection
\* attempt is made and no event changes the socket or the state of the hook.
C13_TeardownClosesTransport ==
    [][/\ mounted /\ ~mounted' =>
             sockState' = "closed" /\ sockId' = NoId /\ ~isConnected'
       /\ ~mounted => UNCHANGED <<sockVars, hookVars>>]_vars

\* C13 witness: unmounted while a reconnection to a session that had delivered a
\* snapshot was under way, and the socket is closed
C13_Witness ==
    /\ evt.kind = "unmount"
    /\ ~mounted
    /\ sockState = "closed"
    /\ attempts > 0
    /\ attempts < ReconnectionAttempts
    /\ gameState # Null

\* the latest snapshot has been processed by the page showing the game
SnapshotProcessed ==
    /\ mounted
    /\ ~RenderPending
    /\ showGame
    /\ gameState # Null
    /\ playerId # NoId

\* C14: once a snapshot has been processed by the page showing the game, the
\* active effect is activeEffects[0] of the snake whose id is playerId if that
\* snake is alive and its list is not empty, and null otherwise (no such snake,
\* a dead one, an empty list).
C14_EffectSelection ==
    SnapshotProcessed =>
        LET snake == Find(gameState.snakes, playerId) IN
        activeEffect = IF snake = Null THEN Null
                       ELSE IF ~snake.alive THEN Null
                       ELSE IF Len(snake.activeEffects) = 0 THEN Null
                       ELSE snake.activeEffects[1]

\* C14 witness: a snapshot in which the local snake is dead and still carries
\* an effect has been processed
C14_Witness ==
    /\ SnapshotProcessed
    /\ LocalDead(gameState, playerId)
    /\ Len(Find(gameState.snakes, playerId).activeEffects) > 0
    /\ activeEffect = Null

\* C15: in the step in which the effect given to the indicator changes from
\* null to an effect that has not expired, the indicator is shown, and in the
\* step in which it changes to null, the indicator is hidden.
C15_ShowHideImmediate ==
    [][/\ (effect = Null /\ effect' # Null /\ effect'.endTime > now') =>
             Display(effect', timeLeft') # Null
       /\ (effect # Null /\ effect' = Null) =>
             Display(effect', timeLeft') = Null]_vars

\* C16: the value the indicator displays is always computed from the endTime of
\* the effect object it currently holds: after a switch to another object the
\* countdown restarts from the new object, so the seconds shown while an
\* interval runs are those of the current object at the start of the running
\* 100 ms period (the switch, or the last tick).
C16_CountdownOfCurrentEffect ==
    (effect # Null /\ timeLeft > 0 /\ updateTimer # 0) =>
        timeLeft = RemainingSeconds(effect, updateTimer - IntervalDelay)

\* a step in which the interval callback of the indicator ran
IntervalStep == evt'.kind = "interval" /\ updateTimer # 0 /\ updateTimer' # updateTimer

\* C17: at each 100 ms tick the indicator displays ceil(max(0, endTime - now) / 1000)
\* of its effect object; for that object the value is not greater than at any
\* earlier time, hence non-increasing from tick to tick, and it is 0 exactly at
\* the ticks at which now >= endTime.
C17_CountdownMonotonic ==
    [][IntervalStep =>
          /\ effect' = effect
          /\ (effect.endTime - now >= 0) =>
                 (timeLeft' - 1) * MsPerSecond < effect.endTime - now
                 /\ effect.endTime - now <= timeLeft' * MsPerSecond
          /\ \A t \in Epoch..now : RemainingSeconds(effect, t) >= timeLeft'
          /\ timeLeft = RemainingSeconds(effect, updateTimer - IntervalDelay) =>
                 timeLeft' <= timeLeft
          /\ timeLeft' = 0 <=> now >= effect.endTime]_vars

\* C17 witness: a tick has just lowered the seconds displayed for an effect
\* that has not expired
C17_Witness ==
    /\ evt.kind = "interval"
    /\ effect = BoostB
    /\ timeLeft = 1
    /\ updateTimer # 0
    /\ now < effect.endTime
    /\ now >= Horizon + IntervalDelay

\* the interval of the effect held has cancelled itself at a tick with nothing
\* remaining
SelfCancelled ==
    /\ effect # Null
    /\ updateTimer = 0
    /\ timeLeft = 0
    /\ now >= effect.endTime

\* C18: the interval of an effect object that is not withdrawn eventually
\* reaches a tick with remaining = 0; at that tick it cancels itself, and from
\* then on there are no further ticks and the indicator displays nothing until
\* another effect object is supplied.
C18_CountdownSelfCancel ==
    /\ (effect # Null /\ updateTimer # 0) ~> (effect = Null \/ SelfCancelled)
    /\ [][/\ IntervalStep => (updateTimer' = 0 <=> now >= effect.endTime)
          /\ (effect # Null /\ updateTimer = 0 /\ evt'.kind # "renderIndicator") =>
                 updateTimer' = 0 /\ timeLeft' = timeLeft /\ effect' \in {effect, Null}]_vars
    /\ [](effect # Null /\ updateTimer = 0 => Display(effect, timeLeft) = Null)

\* C18 witness: the interval of the longer effect has just cancelled itself
C18_Witness ==
    /\ SelfCancelled
    /\ mounted
    /\ evt.kind = "interval"
    /\ effect = BoostB

\* C19: the view follows the phase of the latest snapshot only: in every state
\* of a connected client that has rendered its latest state, the game view is
\* shown iff the status of the latest snapshot is 'playing'.
C19_ViewFollowsPhase ==
    (mounted /\ ~RenderPending /\ isConnected) =>
        (View(rendered) = "game" <=> Status(gameState) = "playing")

\* dx, dy in {-1, 0, 1} with exactly one of them nonzero
UnitDirection(d) ==
    /\ d.dx \in {-1, 0, 1}
    /\ d.dy \in {-1, 0, 1}
    /\ (d.dx = 0) # (d.dy = 0)

\* C20: ArrowUp/W give (0,-1), ArrowDown/S (0,1), ArrowLeft/A (-1,0) and
\* ArrowRight/D (1,0), whatever the case of the letter; every move handed to
\* sendMove or to the socket has dx, dy in {-1, 0, 1} with exactly one of them
\* nonzero; any other key sends nothing and leaves lastKeyTime as it is.
C20_KeyMapping ==
    [][/\ (evt'.kind = "keydown" /\ UNCHANGED <<now, rendered, unprocessed, sockState>>) =>
             /\ evt'.key \in {"ArrowUp", "w", "W"} =>
                    evt'.direction = [dx |-> 0, dy |-> -1]
             /\ evt'.key \in {"ArrowDown", "s", "S"} =>
                    evt'.direction = [dx |-> 0, dy |-> 1]
             /\ evt'.key \in {"ArrowLeft", "a", "A"} =>
                    evt'.direction = [dx |-> -1, dy |-> 0]
             /\ evt'.key \in {"ArrowRight", "d", "D"} =>
                    evt'.direction = [dx |-> 1, dy |-> 0]
             /\ evt'.key \notin {"ArrowUp", "w", "W", "ArrowDown", "s", "S", "ArrowLeft",
                                 "a", "A", "ArrowRight", "d", "D"} =>
                    evt'.direction = Null /\ UNCHANGED <<lastKeyTime, lastMove, sendBuffer>>
             /\ lastMove' # lastMove => lastMove'.direction = evt'.direction
       /\ lastMove' # Null => UnitDirection(lastMove'.direction)
       /\ \A i \in 1..Len(sendBuffer') :
             sendBuffer'[i].ev = "move" => UnitDirection(sendBuffer'[i].direction)]_vars

\* C20 witness: the capital S has just been sent as the move (0, 1)
C20_Witness ==
    /\ evt.kind = "keydown"
    /\ evt.key = "S"
    /\ lastMove # Null
    /\ lastMove.direction = [dx |-> 0, dy |-> 1]
    /\ lastMove.emitted
    /\ lastKeyTime = now

\* the operations painted on the canvas that drawSnake issued for the snake of
\* index i of the snapshot
SnakeOps(i) == SelectSeq(surface, LAMBDA o : o.layer = "snake" /\ o.of = i)

\* C21: for every snake of the snapshot drawn and every playerId, each body
\* segment is filled once, with the dead colour when the snake is not alive
\* (whatever its id), with the own colour when it is alive and its id is playerId,
\* with the other colour when it is alive and its id is not playerId; the head
\* outline is stroked only for the segment of index 0 of an alive snake.
C21_ColourPolicy ==
    frame # Null /\ frame.gameState # Null =>
        \A i \in 1..Len(frame.gameState.snakes) :
            LET snake == frame.gameState.snakes[i]
                ops == SnakeOps(i)
                fills == SelectSeq(ops, LAMBDA o : o.op = "fillRect")
                strokes == SelectSeq(ops, LAMBDA o : o.op = "strokeRect")
                colour == IF ~snake.alive THEN "#666"
                          ELSE IF snake.id = frame.playerId THEN "#4CAF50"
                          ELSE "#2196F3"
            IN  /\ Len(fills) = Len(snake.body)
                /\ \A k \in 1..Len(fills) :
                       /\ fills[k].seg = k - 1
                       /\ fills[k].fillStyle = colour
                       /\ fills[k].x = (snake.body[k].x * 12) + 1
                       /\ fills[k].y = (snake.body[k].y * 12) + 1
                /\ Len(strokes) = IF snake.alive THEN 1 ELSE 0
                /\ \A k \in 1..Len(strokes) : strokes[k].seg = 0
                /\ Len(ops) = Len(fills) + Len(strokes)

\* a dead snake of the local player and an alive snake of another, of more than
\* one segment, are painted
C21_Witness ==
    /\ frame # Null
    /\ frame.gameState # Null
    /\ frame.playerId = "b"
    /\ Len(frame.gameState.snakes) = 2
    /\ frame.gameState.snakes[1].id = "a" /\ frame.gameState.snakes[1].alive
    /\ frame.gameState.snakes[2].id = "b" /\ ~frame.gameState.snakes[2].alive
    /\ Len(SnakeOps(1)) = 3
    /\ Len(SnakeOps(2)) = 1

\* running the render step again for the props of the last run issues the same
\* draw operations and leaves the same surface and the same drawing state
RenderTwiceSame ==
    LET again == RenderEffect(ctx2d, frame.gameState, frame.playerId)
    IN  /\ again.ops = surface
        /\ Paint(surface, again.ops, CANVAS_WIDTH(frame.gameState),
                 CANVAS_HEIGHT(frame.gameState)) = surface
        /\ again.c = ctx2d

\* C22: once the render step has run for (gameState, playerId), running it again
\* for the same props issues the same sequence of draw operations and leaves the
\* same surface as the first run, and that result does not depend on what was
\* rendered before: it is what one run on a new canvas produces.
C22_IdempotentRender ==
    frame # Null /\ frame.gameState # Null =>
        /\ RenderTwiceSame
        /\ surface = RenderEffect(NewContext, frame.gameState, frame.playerId).ops

\* the back-to-front rank of the layer an operation belongs to
LayerRank(layer) ==
    CASE layer = "background" -> 1
      [] layer = "grid" -> 2
      [] layer = "food" -> 3
      [] layer = "snake" -> 4
      [] layer = "hud" -> 5

\* C23: the draw operations of a render are, in this order, the background fill,
\* the grid lines, the food items in snapshot order, the snakes in snapshot
\* order, and one HUD line per snake in snapshot order; no operation of a later
\* layer precedes one of an earlier layer.
C23_DrawOrder ==
    frame # Null /\ frame.gameState # Null =>
        LET gs == frame.gameState
            Layer(l) == SelectSeq(surface, LAMBDA o : o.layer = l)
        IN  /\ \A i \in 1..(Len(surface) - 1) :
                   \/ LayerRank(surface[i].layer) < LayerRank(surface[i + 1].layer)
                   \/ /\ surface[i].layer = surface[i + 1].layer
                      /\ surface[i].layer \in {"food", "snake", "hud"} =>
                             surface[i].of <= surface[i + 1].of
            /\ Len(Layer("background")) = 1
            /\ surface[1].op = "fillRect" /\ surface[1].fillStyle = "#1a1a1a"
            /\ Len(Layer("grid")) = (gs.gameWidth + 1) + (gs.gameHeight + 1)
            /\ \A i \in 1..Len(Layer("grid")) : Layer("grid")[i].op = "stroke"
            /\ Len(Layer("food")) = Len(gs.food)
            /\ \A i \in 1..Len(gs.food) :
                   /\ Layer("food")[i].of = i
                   /\ Layer("food")[i].op = "fillText"
                   /\ Layer("food")[i].x = (gs.food[i].x * 12) + 6
            /\ \A i \in 1..Len(gs.snakes) : Len(SnakeOps(i)) >= 1
            /\ \A i \in 1..Len(Layer("snake")) :
                   Layer("snake")[i].of \in 1..Len(gs.snakes)
            /\ Len(Layer("hud")) = Len(gs.snakes)
            /\ \A i \in 1..Len(gs.snakes) :
                   /\ Layer("hud")[i].of = i
                   /\ Layer("hud")[i].op = "fillText"
                   /\ Layer("hud")[i].y = 20 + (25 * (i - 1))

\* a snapshot with two food items and two snakes is on the canvas
C23_Witness ==
    /\ frame # Null
    /\ frame.gameState # Null
    /\ Len(frame.gameState.food) = 2
    /\ Len(frame.gameState.snakes) = 2
    /\ frame.gameState.snakes[1].id = "b"
    /\ Len(surface) > 8

\* C24: whenever the indicator shows its panel, the width of the bar is the
\* displayed seconds / 10 * 100, whatever the effect and the time it was granted
\* for: 100 at 10 s, above 100 with more than 10 s remaining.
C24_ProgressPercentage ==
    LET panel == Panel(effect, timeLeft) IN
    panel # Null =>
        /\ panel.width * 10 = panel.seconds * 100
        /\ panel.seconds = 10 => panel.width = 100
        /\ panel.seconds > 10 => panel.width > 100
        /\ panel.seconds < 10 => panel.width < 100

\* the panel is shown with more than 10 s remaining
C24_Witness ==
    /\ Panel(effect, timeLeft) # Null
    /\ effect = BoostC
    /\ timeLeft = 11
    /\ Panel(effect, timeLeft).width = 110

\* a step that handles gameStarted, connect_error or an event without listener
InertEventStep ==
    /\ evt'.kind \in {"gameStarted", "connect_error", "unhandled"}
    /\ evt' # evt \/ sockState' # sockState

\* C25: receiving gameStarted, connect_error or an event no listener is
\* registered for leaves gameState, lobbyStatus, isConnected and playerId (and
\* the count of snapshots awaiting a render) as they were.
C25_InertEvents ==
    [][InertEventStep => UNCHANGED <<gameState, lobbyStatus, isConnected, playerId,
                                     unprocessed>>]_vars

\* gameStarted was received while a snapshot and a lobby status were held
C25_Witness ==
    /\ evt.kind = "gameStarted"
    /\ gameState # Null
    /\ lobbyStatus # Null
    /\ isConnected
    /\ playerId = "b"

\* C26: at most one death-revert timeout is pending at any time; snapshots that
\* show the local player dead while showGame is true arm none beyond the first.
C26_OneRevertPending == Len(timers) <= 1

C29_OneInterval ==
    /\ intervals \in {0, 1}
    /\ effect = Null \/ ~mounted => intervals = 0
    /\ intervals = 1 <=> updateTimer # 0

\* an effect object replaced another whose interval was running, and one
\* interval is active
C29_Witness ==
    /\ intervals = 1
    /\ effect = BoostB
    /\ timeLeft = 1
    /\ now < BoostA.endTime
    /\ evt.kind = "renderIndicator"

\* C30: a mapped key event that passes the throttle while the session is
\* disconnected sets lastKeyTime but reaches no socket.emit and leaves nothing
\* buffered; a mapped key event less than 50 ms after lastKeyTime is dropped,
\* connected or not; and a connect finds no command to replay.
C30_DisconnectedKeyLost ==
    [][/\ MappedKeyStep /\ sockState # "open" /\ ~Throttled(now) =>
             /\ lastKeyTime' = now
             /\ ~lastMove'.emitted
             /\ sendBuffer' = sendBuffer
       /\ MappedKeyStep /\ Throttled(now) =>
             UNCHANGED <<lastKeyTime, lastMove, sendBuffer>>
       /\ evt'.kind = "connect" /\ sockState # "open" /\ sockState' = "open" =>
             sendBuffer = <<>>]_vars

\* C31: in every state where Lobby is mounted and the hook holds the payload of
\* a lobbyUpdate event, the status Lobby displays is that payload, also right
\* after Lobby was mounted again.
C31_LobbyOccupancy ==
    lobbyShown # Null /\ lobbyStatus # Null =>
        /\ lobbyShown.playerCount = lobbyStatus.playerCount
        /\ lobbyShown = lobbyStatus

====
